---- MODULE Spec2Model ----
(***************************************************************************)
(* Tenant-scoped access control, tenant directory, request gate and usage  *)
(* metering of the StagifyAI multi-tenant code base.                       *)
(*                                                                         *)
(*   SpecAccess : the pure checks hasPermission / hasFeatureAccess /       *)
(*                getUsageLimit applied to inputs drawn in Init.           *)
(*   SpecGate   : requests through withTenant / tenantMiddleware while     *)
(*                tenants and users change status.                         *)
(*   SpecStore  : the tenant-scoped queries of TenantService.              *)
(*   Spec       : usage metering and quota.                                *)
(*   SpecTenants    : createTenant calls interleaving at their awaits,     *)
(*                    updateTenant and deleteTenant.                       *)
(*   SpecGeneration : the FalAIService client and staging operations.      *)
(*   SpecDirectory  : repeated getTenantContext calls.                     *)
(*   SpecSettings   : tenant settings written and read.                    *)
(***************************************************************************)
EXTENDS Integers, Sequences, FiniteSets, TLC

VARIABLES
    \* ---- inputs and results of the pure access checks (SpecAccess)
    role,            \* actual role passed to hasPermission
    requiredRole,    \* required role passed to hasPermission
    planType,        \* plan tier passed to hasFeatureAccess / getUsageLimit
    feature,         \* feature tag passed to hasFeatureAccess
    resourceType,    \* resource type passed to getUsageLimit
    permission,      \* outcome of hasPermission(role, requiredRole)
    featureAccess,   \* outcome of hasFeatureAccess(planType, feature)
    usageLimit,      \* outcome of getUsageLimit(resourceType)
    \* ---- the persistence store (db)
    tenants,         \* db.tenant: tenant id -> row
    users,           \* db.user: user id -> row
    organizations,   \* db.organization: set of rows
    projects,        \* db.stagingProject: set of rows
    resourceUsage,   \* db.resourceUsage: rows in insertion order
    tenantSettings,  \* db.tenantSetting: set of rows
    now,             \* the calendar month the clock is in
    \* ---- callers
    req,             \* the request passing through withTenant / tenantMiddleware
    quota,           \* outcome of the last QuotaService.checkQuota
    query,           \* outcome of the last tenant-scoped TenantService query
    \* ---- services
    subscriptions,   \* db.subscription: set of rows
    creates,         \* TenantService.createTenant calls: call id -> position and locals
    generation,      \* the FalAIService call under way or finished last
    staging,         \* the staging operation of the /api/stage route
    resolved,        \* outcome of the last direct getTenantContext call
    \* ---- the generation client modules
    env,             \* process.env: NODE_ENV and FAL_AI_API_KEY
    falAIService,    \* the singleton of the fal-ai module
    mockFalAIService, \* the singleton of the fal-ai-mock module
    allocated,       \* number of objects constructed so far
    calls,           \* per module: the key last initialized, the last result got
    keyTest          \* the POST /api/test-fal-ai request under way or finished last

accessVars == <<role, requiredRole, planType, feature, resourceType,
                permission, featureAccess, usageLimit>>

storeVars == <<tenants, users, organizations, projects, resourceUsage,
               tenantSettings, now>>

clientVars == <<env, falAIService, mockFalAIService, allocated, calls, keyTest>>

serviceVars == <<subscriptions, creates, generation, staging, resolved,
                 clientVars>>

vars == <<accessVars, storeVars, req, quota, query, serviceVars>>

(***************************************************************************)
(* JavaScript values as the access checks see them.                        *)
(* A property lookup obj[key] on an object literal yields the own property *)
(* when the literal has one, the inherited Object.prototype member when    *)
(* the key names one, and undefined otherwise.                             *)
(***************************************************************************)
JSUndefined == [kind |-> "undefined", num |-> 0, items |-> <<>>, name |-> ""]
JSNumber(n) == [kind |-> "number", num |-> n, items |-> <<>>, name |-> ""]
JSArray(xs) == [kind |-> "array", num |-> 0, items |-> xs, name |-> ""]
JSObject(n) == [kind |-> "object", num |-> 0, items |-> <<>>, name |-> n]
JSString(str) == [kind |-> "string", num |-> 0, items |-> <<>>, name |-> str]

\* Members every object literal inherits from Object.prototype (a sample:
\* two functions and the prototype object itself).
ObjectPrototypeKeys == {"constructor", "toString", "__proto__"}

\* String(v) of an inherited member, as UTF-16 code units:
\* "function Object() { [native code] }", "function toString() { [native code] }"
\* and "[object Object]".
ObjectToString(n) ==
    CASE n = "constructor" ->
           <<102, 117, 110, 99, 116, 105, 111, 110, 32, 79, 98, 106, 101, 99,
             116, 40, 41, 32, 123, 32, 91, 110, 97, 116, 105, 118, 101, 32,
             99, 111, 100, 101, 93, 32, 125>>
      [] n = "toString" ->
           <<102, 117, 110, 99, 116, 105, 111, 110, 32, 116, 111, 83, 116,
             114, 105, 110, 103, 40, 41, 32, 123, 32, 91, 110, 97, 116, 105,
             118, 101, 32, 99, 111, 100, 101, 93, 32, 125>>
      [] OTHER ->
           <<91, 111, 98, 106, 101, 99, 116, 32, 79, 98, 106, 101, 99, 116, 93>>

\* obj[key] for an object literal whose own properties are the function own.
JSLookup(own, key) ==
    IF key \in DOMAIN own THEN own[key]
    ELSE IF key \in ObjectPrototypeKeys THEN JSObject(key)
    ELSE JSUndefined

\* s < t on strings: lexicographic on code units, a proper prefix is smaller.
RECURSIVE StringLess(_, _)
StringLess(s, t) ==
    IF t = <<>> THEN FALSE
    ELSE IF s = <<>> THEN TRUE
    ELSE IF Head(s) # Head(t) THEN Head(s) < Head(t)
    ELSE StringLess(Tail(s), Tail(t))

\* a >= b (abstract relational comparison): objects are converted to their
\* primitive, which is a string here; two strings compare as strings; in every
\* other case both sides become numbers, and undefined or a non-numeric string
\* becomes NaN, for which every comparison is false.
JSGreaterEq(a, b) ==
    IF a.kind = "object" /\ b.kind = "object"
    THEN ~StringLess(ObjectToString(a.name), ObjectToString(b.name))
    ELSE IF a.kind = "number" /\ b.kind = "number"
    THEN a.num >= b.num
    ELSE FALSE

\* Truthiness used by || : undefined and 0 are falsy, objects are truthy.
JSTruthy(v) ==
    CASE v.kind = "undefined" -> FALSE
      [] v.kind = "number" -> v.num # 0
      [] v.kind = "string" -> v.name # ""
      [] OTHER -> TRUE

(***************************************************************************)
(* Role-based access control.                                              *)
(***************************************************************************)
roleHierarchy ==
    [r \in {"viewer", "member", "admin", "owner"} |->
        CASE r = "viewer" -> JSNumber(0)
          [] r = "member" -> JSNumber(1)
          [] r = "admin" -> JSNumber(2)
          [] r = "owner" -> JSNumber(3)]

\* hasPermission with > written for >=
hasPermissionStrict(r, required) ==
    LET a == JSLookup(roleHierarchy, r)
        b == JSLookup(roleHierarchy, required)
    IN  JSGreaterEq(a, b) /\ a # b

hasPermission(r, required) ==
    JSGreaterEq(JSLookup(roleHierarchy, r), JSLookup(roleHierarchy, required))

(***************************************************************************)
(* Plan-based access control.                                              *)
(***************************************************************************)
featureMatrix ==
    [p \in {"free", "pro", "enterprise"} |->
        CASE p = "free" ->
               JSArray(<<"basic_staging", "5_projects", "1_user">>)
          [] p = "pro" ->
               JSArray(<<"basic_staging", "advanced_staging",
                         "unlimited_projects", "team_members",
                         "custom_branding">>)
          [] p = "enterprise" ->
               JSArray(<<"basic_staging", "advanced_staging",
                         "unlimited_projects", "team_members",
                         "custom_branding", "api_access", "priority_support",
                         "custom_domain">>)]

\* Array.prototype.includes
includes(xs, x) == \E i \in 1..Len(xs) : xs[i] = x

Returned(v) == [outcome |-> "returned", value |-> v]
Threw(e) == [outcome |-> "threw", value |-> e]
Pending == [outcome |-> "pending", value |-> "none"]

\* hasFeatureAccess with the tiers read as a chain free < pro < enterprise,
\* each tier also granting what the tiers below it list
hasFeatureAccessInherited(p, f) ==
    LET below == CASE p = "free" -> {"free"}
                   [] p = "pro" -> {"free", "pro"}
                   [] p = "enterprise" -> {"free", "pro", "enterprise"}
                   [] OTHER -> {}
    IN  Returned(\E q \in below : includes(featureMatrix[q].items, f))

\* featureMatrix[planType]?.includes(feature) || false
\* The ?. only guards against undefined: an inherited member is an object
\* without an includes method, and calling it raises a TypeError.
hasFeatureAccess(p, f) ==
    LET entry == JSLookup(featureMatrix, p) IN
    CASE entry.kind = "undefined" -> Returned(FALSE)
      [] entry.kind = "array" -> Returned(includes(entry.items, f))
      [] OTHER -> Threw("TypeError")

(***************************************************************************)
(* Plan limits of the tenant dashboard.                                    *)
(***************************************************************************)
StagingLimitEnterprise == 1000
StagingLimitPro == 100
StagingLimitFree == 10
StorageLimitEnterprise == 50000
StorageLimitPro == 10000
StorageLimitFree == 1000
ApiCallsLimitEnterprise == 100000
ApiCallsLimitPro == 10000
ApiCallsLimitFree == 1000

limits(p) ==
    [t \in {"staging", "storage", "api_calls"} |->
        CASE t = "staging" ->
               JSNumber(IF p = "enterprise" THEN StagingLimitEnterprise
                        ELSE IF p = "pro" THEN StagingLimitPro
                        ELSE StagingLimitFree)
          [] t = "storage" ->
               JSNumber(IF p = "enterprise" THEN StorageLimitEnterprise
                        ELSE IF p = "pro" THEN StorageLimitPro
                        ELSE StorageLimitFree)
          [] t = "api_calls" ->
               JSNumber(IF p = "enterprise" THEN ApiCallsLimitEnterprise
                        ELSE IF p = "pro" THEN ApiCallsLimitPro
                        ELSE ApiCallsLimitFree)]

\* limits[resourceType] || 0, for a tenant on plan p
getUsageLimit(p, t) ==
    LET v == JSLookup(limits(p), t) IN
    IF JSTruthy(v) THEN v ELSE JSNumber(0)

(***************************************************************************)
(* The persistence store.                                                  *)
(***************************************************************************)
TenantIds == {"t1", "t2"}
UserIds == {"u1", "u2", "u3"}
TenantStatuses == {"active", "suspended", "cancelled"}
UserStatuses == {"active", "inactive"}
MeteredTypes == {"staging", "storage"}
Amounts == {1, 2}
SettingKeys == {"theme"}
SettingValues == {"light", "dark"}

\* Bounds of the model.
MaxMonth == 1        \* the clock runs through months 0..MaxMonth
MaxEvents == 2       \* usage rows recorded during a run, on top of Init's
MaxProjects == 2     \* staging projects created during a run

\* Staging usage rows of tenant t1 the store holds when a run starts: one
\* below the free tier's staging limit.
SeedUsage == StagingLimitFree - 1

Null == <<>>
Some(x) == <<x>>

RECURSIVE SumAmounts(_)
SumAmounts(rows) ==
    IF rows = <<>> THEN 0 ELSE Head(rows).amount + SumAmounts(Tail(rows))

\* db.X.findMany({ where }) on a table kept in insertion order
Where(rows, P(_)) == SelectSeq(rows, P)

\* db.resourceUsage.create({ data: { tenantId, resourceType, amount,
\*                                   period: 'monthly' } })
\* created_at defaults to the current timestamp.
UsageRow(tenantId, rt, amount) ==
    [tenantId |-> tenantId, resourceType |-> rt, amount |-> amount,
     period |-> "monthly", createdAt |-> now]

\* TenantService.trackResourceUsage: the table after the insert
trackResourceUsage(tenantId, rt, amount) ==
    Append(resourceUsage, UsageRow(tenantId, rt, amount))

\* The plan-tier limit of a tenant for a resource type (the per-tier table
\* of getUsageLimit, read for the tenant's plan).
getTenantQuota(tenantId, rt) ==
    getUsageLimit(tenants[tenantId].planType, rt).num

\* QuotaService.checkQuota
checkQuota(tenantId, rt) ==
    LET usage == Where(resourceUsage,
                       LAMBDA u : /\ u.tenantId = tenantId
                                  /\ u.resourceType = rt
                                  /\ u.period = "monthly")
        total == SumAmounts(usage)
        limit == getTenantQuota(tenantId, rt)
    IN  [used |-> total, limit |-> limit, remaining |-> limit - total]

(***************************************************************************)
(* Tenant-scoped queries of TenantService, over the tables db.              *)
(***************************************************************************)
\* The tables as the queries see them.
Db ==
    [users |-> users, organizations |-> organizations, projects |-> projects,
     resourceUsage |-> resourceUsage, tenantSettings |-> tenantSettings]

\* The user ids of a set, latest createdAt first (orderBy createdAt desc).
RECURSIVE OrderByCreatedAtDesc(_, _)
OrderByCreatedAtDesc(tbl, ids) ==
    IF ids = {} THEN <<>>
    ELSE LET latest == CHOOSE u \in ids :
                          \A v \in ids : tbl[u].createdAt >= tbl[v].createdAt
         IN  <<latest>> \o OrderByCreatedAtDesc(tbl, ids \ {latest})

\* TenantService.getTenantUsers: db.user.findMany({ where: { tenantId },
\* include organization, orderBy createdAt desc })
getTenantUsers(db, tenantId) ==
    LET ids == OrderByCreatedAtDesc(
                   db.users, {u \in DOMAIN db.users : db.users[u].tenantId = tenantId})
    IN  [i \in 1..Len(ids) |->
            [id |-> ids[i], tenantId |-> db.users[ids[i]].tenantId,
             role |-> db.users[ids[i]].role,
             organization |-> db.users[ids[i]].organizationId]]

\* monthlyUsage.reduce: the amounts summed per resource type
UsageByType(rows) ==
    [rt \in {rows[i].resourceType : i \in 1..Len(rows)} |->
        SumAmounts(Where(rows, LAMBDA u : u.resourceType = rt))]

\* getTenantStats whose usage query has no tenantId in its where clause
getTenantStatsUsageUnscoped(db, clock, tenantId) ==
    [userCount |->
        Cardinality({u \in DOMAIN db.users : db.users[u].tenantId = tenantId}),
     projectCount |->
        Cardinality({q \in db.projects : q.tenantId = tenantId}),
     organizationCount |->
        Cardinality({o \in db.organizations : o.tenantId = tenantId}),
     monthlyUsage |->
        UsageByType(Where(db.resourceUsage,
                          LAMBDA u : /\ u.period = "monthly"
                                     /\ u.createdAt >= clock))]

\* TenantService.getTenantStats: three counts scoped by tenantId and the
\* usage rows of the tenant tagged monthly and created since the first of
\* the current month, summed per resource type.
getTenantStats(db, clock, tenantId) ==
    [userCount |->
        Cardinality({u \in DOMAIN db.users : db.users[u].tenantId = tenantId}),
     projectCount |->
        Cardinality({q \in db.projects : q.tenantId = tenantId}),
     organizationCount |->
        Cardinality({o \in db.organizations : o.tenantId = tenantId}),
     monthlyUsage |->
        UsageByType(Where(db.resourceUsage,
                          LAMBDA u : /\ u.tenantId = tenantId
                                     /\ u.period = "monthly"
                                     /\ u.createdAt >= clock))]

\* TenantService.getTenantSettings: the own properties of the object the
\* reduce builds from the tenant's rows, acc[settingKey] = settingValue.
\* Assigning a string to acc['__proto__'] calls the inherited setter, which
\* ignores a value that is neither an object nor null: no own property.
getTenantSettings(db, tenantId) ==
    LET rows == {r \in db.tenantSettings : r.tenantId = tenantId} IN
    [k \in {r.settingKey : r \in rows} \ {"__proto__"} |->
        (CHOOSE r \in rows : r.settingKey = k).settingValue]

\* settings[key] on the object getTenantSettings returned
SettingOf(settings, key) ==
    JSLookup([k \in DOMAIN settings |-> JSString(settings[k])], key)

(***************************************************************************)
(* Tenant directory: resolving a session to its tenant context.            *)
(***************************************************************************)
\* Identities a session can carry: a user id with a row, a user id without
\* one, or no identity at all.
SessionIds == UserIds \cup {"u9"}
NoSession == "none"

\* What can go wrong while resolving: nothing, getServerSession throws, or
\* db.user.findUnique throws.
Faults == {"none", "session", "db"}

TenantContext(u) ==
    LET user == users[u]
        tenant == tenants[user.tenantId]
    IN  [tenant |-> [id |-> user.tenantId, planType |-> tenant.planType,
                     status |-> tenant.status],
         user |-> [id |-> u, role |-> user.role,
                   organizationId |-> user.organizationId],
         organization |-> IF user.organizationId = "none" THEN Null
                          ELSE Some([id |-> user.organizationId])]

\* getTenantContext that only refuses tenants marked suspended
getTenantContextSuspendedOnly(session, fault) ==
    IF session = NoSession THEN Null
    ELSE IF fault # "none" THEN Null
    ELSE IF session \notin DOMAIN users THEN Null
    ELSE IF users[session].tenantId \notin DOMAIN tenants THEN Null
    ELSE IF tenants[users[session].tenantId].status = "suspended" THEN Null
    ELSE IF users[session].status # "active" THEN Null
    ELSE Some(TenantContext(session))

\* getTenantContext without the check of the user's own status
getTenantContextTenantOnly(session, fault) ==
    IF session = NoSession THEN Null
    ELSE IF fault # "none" THEN Null
    ELSE IF session \notin DOMAIN users THEN Null
    ELSE IF users[session].tenantId \notin DOMAIN tenants THEN Null
    ELSE IF tenants[users[session].tenantId].status # "active" THEN Null
    ELSE Some(TenantContext(session))

\* getTenantContext: the context, or Null (the try block returns null, and
\* so does the catch block when a lookup throws)
getTenantContext(session, fault) ==
    IF fault = "session" THEN Null
    ELSE IF session = NoSession THEN Null
    ELSE IF fault = "db" THEN Null
    ELSE IF session \notin DOMAIN users THEN Null
    ELSE IF users[session].tenantId \notin DOMAIN tenants THEN Null
    ELSE IF tenants[users[session].tenantId].status # "active" THEN Null
    ELSE IF users[session].status # "active" THEN Null
    ELSE Some(TenantContext(session))

(***************************************************************************)
(* The request gate: withTenant(handler) and tenantMiddleware.             *)
(***************************************************************************)
GateKinds == {"withTenant", "tenantMiddleware"}

\* The operations routed through the gate, with the role the specification
\* requires for each and whether it consumes a metered resource.
Operations == {"view", "stage", "configure"}
RequiredRole(op) ==
    CASE op = "view" -> "viewer"
      [] op = "stage" -> "member"
      [] op = "configure" -> "admin"
Metered(op) == op = "stage"

\* Request headers. A Headers object keeps one entry per lower-cased name,
\* holding the values received under that name in order.
HeaderNames == {"x-tenant-id", "X-Tenant-Id", "x-user-id", "x-user-role", "accept"}
LowerCase(name) == IF name = "X-Tenant-Id" THEN "x-tenant-id" ELSE name

\* The header lines a client can send: any of the names, the tenant id
\* under either spelling, with values of its choosing.
ClientHeaderValues(name) ==
    IF LowerCase(name) = "x-tenant-id" THEN {"t1", "t2"}
    ELSE IF name = "x-user-id" THEN {"u3"}
    ELSE IF name = "x-user-role" THEN {"owner"}
    ELSE {"text/html"}
ClientHeaders ==
    UNION {{h \in [names -> {"t1", "t2", "u3", "owner", "text/html"}] :
               \A n \in names : h[n] \in ClientHeaderValues(n)} :
           names \in SUBSET HeaderNames}
NoHeaders == [n \in {} |-> ""]

\* The values of a set of header lines, in the order of HeaderNames' spelling
\* (the lower-case spelling first).
RECURSIVE ValuesOf(_, _)
ValuesOf(lines, names) ==
    IF names = {} THEN <<>>
    ELSE LET first == IF \E n \in names : LowerCase(n) = n
                      THEN CHOOSE n \in names : LowerCase(n) = n
                      ELSE CHOOSE n \in names : TRUE
         IN  <<lines[first]>> \o ValuesOf(lines, names \ {first})

\* new Headers(request.headers)
NewHeaders(lines) ==
    [n \in {LowerCase(k) : k \in DOMAIN lines} |->
        ValuesOf(lines, {k \in DOMAIN lines : LowerCase(k) = n})]

\* headers.set(name, value): the entry of the name is replaced
HeadersSet(headers, name, value) ==
    [n \in DOMAIN headers \cup {name} |->
        IF n = name THEN <<value>> ELSE headers[n]]

\* headers.append(name, value): the value is added to the entry of the name
HeadersAppend(headers, name, value) ==
    [n \in DOMAIN headers \cup {name} |->
        IF n # name THEN headers[n]
        ELSE IF n \in DOMAIN headers THEN Append(headers[n], value)
        ELSE <<value>>]

IdleRequest ==
    [pc |-> "idle", kind |-> "withTenant", session |-> NoSession,
     op |-> "view", context |-> Null, response |-> "none",
     handlerRuns |-> 0, fault |-> "none", headers |-> NoHeaders,
     forwarded |-> Null]

\* A request arrives at one of the two gates.
StartRequest(kind, session, op) ==
    /\ req.pc \in {"idle", "done"}
    /\ req' = [pc |-> "resolving", kind |-> kind, session |-> session,
               op |-> op, context |-> Null, response |-> "none",
               handlerRuns |-> 0, fault |-> "none", headers |-> NoHeaders,
               forwarded |-> Null]
    /\ UNCHANGED <<accessVars, storeVars, quota, query>>
    /\ UNCHANGED serviceVars

\* A request carrying client-chosen header lines arrives at tenantMiddleware.
StartMiddlewareRequest(session, lines) ==
    /\ req.pc \in {"idle", "done"}
    /\ req' = [pc |-> "resolving", kind |-> "tenantMiddleware",
               session |-> session, op |-> "view", context |-> Null,
               response |-> "none", handlerRuns |-> 0, fault |-> "none",
               headers |-> lines, forwarded |-> Null]
    /\ UNCHANGED <<accessVars, storeVars, quota, query, serviceVars>>

\* Messages of the errors that reach the catch block of withTenant: the one
\* requireTenantContext throws, and any other.
Unauthorized == "Unauthorized: Invalid tenant context"
ErrorMessages == {Unauthorized, "Error"}

\* The catch block of withTenant: 401 for the message of
\* requireTenantContext, 500 for every other error.
withTenantCatch(message) ==
    IF message = Unauthorized THEN "401 Unauthorized"
    ELSE "500 Internal server error"

\* withTenant up to the call of the handler: requireTenantContext throws
\* on a null context, which the catch block answers; otherwise the handler
\* is called with the context.
withTenant(r, ctx, fault) ==
    IF ctx = Null
    THEN [r EXCEPT !.pc = "done", !.response = withTenantCatch(Unauthorized),
                   !.fault = fault]
    ELSE [r EXCEPT !.pc = "handler", !.context = ctx, !.fault = fault]

\* The headers tenantMiddleware forwards: a copy of the request's, with the
\* three context headers set.
ContextHeaders(lines, ctx) ==
    HeadersSet(HeadersSet(HeadersSet(NewHeaders(lines),
        "x-tenant-id", ctx[1].tenant.id),
        "x-user-id", ctx[1].user.id),
        "x-user-role", ctx[1].user.role)

\* tenantMiddleware that adds the context headers with append
tenantMiddlewareAppending(r, ctx, fault) ==
    IF ctx = Null
    THEN [r EXCEPT !.pc = "done", !.response = "redirect /login",
                   !.fault = fault]
    ELSE [r EXCEPT !.pc = "done", !.context = ctx, !.response = "next",
                   !.fault = fault,
                   !.forwarded = Some(
                       HeadersAppend(HeadersAppend(HeadersAppend(
                           NewHeaders(r.headers),
                           "x-tenant-id", ctx[1].tenant.id),
                           "x-user-id", ctx[1].user.id),
                           "x-user-role", ctx[1].user.role))]

\* tenantMiddleware: redirect to /login without a context, otherwise forward
\* the request with the context headers.
tenantMiddleware(r, ctx, fault) ==
    IF ctx = Null
    THEN [r EXCEPT !.pc = "done", !.response = "redirect /login",
                   !.fault = fault]
    ELSE [r EXCEPT !.pc = "done", !.context = ctx, !.response = "next",
                   !.fault = fault,
                   !.forwarded = Some(ContextHeaders(r.headers, ctx))]

\* The gate resolves the context of the request from the store as it is now.
ResolveContext ==
    /\ req.pc = "resolving"
    /\ \E fault \in Faults :
          /\ fault = "db" => req.session # NoSession
          /\ LET ctx == getTenantContext(req.session, fault) IN
                req' = IF req.kind = "withTenant"
                    THEN withTenant(req, ctx, fault)
                    ELSE tenantMiddleware(req, ctx, fault)
    /\ UNCHANGED <<accessVars, storeVars, quota, query>>
    /\ UNCHANGED serviceVars

\* getTenantContext is called for a session; its result is kept in resolved
\* together with the records it was resolved from.
CallGetTenantContext(session) ==
    /\ \E fault \in Faults :
          /\ fault = "db" => session # NoSession
          /\ resolved' = Some([session |-> session,
                               context |-> getTenantContext(session, fault),
                               tenants |-> tenants, users |-> users,
                               organizations |-> organizations])
    /\ UNCHANGED <<accessVars, storeVars, req, quota, query, subscriptions,
                   creates, generation, staging, clientVars>>

\* db.tenantSetting.upsert on (tenantId, settingKey)
updateTenantSetting(tenantId, key, value) ==
    {s \in tenantSettings : ~(s.tenantId = tenantId /\ s.settingKey = key)}
        \cup {[tenantId |-> tenantId, settingKey |-> key,
               settingValue |-> value]}

\* The handler wrapped by withTenant runs with the resolved context and is
\* answered with its response.
HandlerReturns == [req EXCEPT !.pc = "done", !.response = "200",
                              !.handlerRuns = @ + 1]

\* view: the handler only reads.
HandleView ==
    /\ req.pc = "handler"
    /\ req.op = "view"
    /\ req' = HandlerReturns
    /\ UNCHANGED <<accessVars, storeVars, quota, query>>
    /\ UNCHANGED serviceVars

\* stage: the generation completed and the handler records one staging
\* usage event for the context's tenant.
HandleStage ==
    /\ req.pc = "handler"
    /\ req.op = "stage"
    /\ Len(resourceUsage) < SeedUsage + MaxEvents
    /\ req' = HandlerReturns
    /\ resourceUsage' = trackResourceUsage(req.context[1].tenant.id, "staging", 1)
    /\ UNCHANGED <<accessVars, tenants, users, organizations, projects,
                   tenantSettings, now, quota, query>>
    /\ UNCHANGED serviceVars

\* configure: the handler writes a setting of the context's tenant.
HandleConfigure ==
    /\ req.pc = "handler"
    /\ req.op = "configure"
    /\ tenantSettings' = updateTenantSetting(req.context[1].tenant.id, "theme", "dark")
    /\ req' = HandlerReturns
    /\ UNCHANGED <<accessVars, tenants, users, organizations, projects,
                   resourceUsage, now, quota, query>>
    /\ UNCHANGED serviceVars

\* The handler throws before it wrote anything.
HandlerThrows ==
    /\ req.pc = "handler"
    /\ \E message \in ErrorMessages :
          req' = [req EXCEPT !.pc = "done",
                             !.response = withTenantCatch(message),
                             !.handlerRuns = @ + 1]
    /\ UNCHANGED <<accessVars, storeVars, quota, query>>
    /\ UNCHANGED serviceVars

(***************************************************************************)
(* Operations on the store made outside the gate.                          *)
(***************************************************************************)
\* db.tenant.update({ where: { id }, data }) changing the lifecycle status
SetTenantStatus(t, status) ==
    /\ t \in DOMAIN tenants
    /\ tenants[t].status # status
    /\ tenants' = [tenants EXCEPT ![t].status = status]
    /\ UNCHANGED <<accessVars, users, organizations, projects, resourceUsage,
                   tenantSettings, now, req, quota, query>>
    /\ UNCHANGED serviceVars

\* A user row's lifecycle status is changed.
SetUserStatus(u, status) ==
    /\ u \in DOMAIN users
    /\ users[u].status # status
    /\ users' = [users EXCEPT ![u].status = status]
    /\ UNCHANGED <<accessVars, tenants, organizations, projects, resourceUsage,
                   tenantSettings, now, req, quota, query>>
    /\ UNCHANGED serviceVars

\* TenantService.trackResourceUsage called directly
TrackResourceUsage(t, rt, amount) ==
    /\ t \in DOMAIN tenants
    /\ Len(resourceUsage) < SeedUsage + MaxEvents
    /\ resourceUsage' = trackResourceUsage(t, rt, amount)
    /\ UNCHANGED <<accessVars, tenants, users, organizations, projects,
                   tenantSettings, now, req, quota, query>>
    /\ UNCHANGED serviceVars

\* QuotaService.checkQuota called; its result is kept in quota.
CheckQuota(t, rt) ==
    /\ t \in DOMAIN tenants
    /\ quota' = Some([tenantId |-> t, resourceType |-> rt,
                      result |-> checkQuota(t, rt)])
    /\ UNCHANGED <<accessVars, storeVars, req, query>>
    /\ UNCHANGED serviceVars

\* TenantService.updateTenantSetting called directly
UpdateTenantSetting(t, key, value) ==
    /\ t \in DOMAIN tenants
    /\ tenantSettings' = updateTenantSetting(t, key, value)
    /\ UNCHANGED <<accessVars, tenants, users, organizations, projects,
                   resourceUsage, now, req, quota, query>>
    /\ UNCHANGED serviceVars

\* TenantDB.createProject: db.stagingProject.create({ data: { ...data,
\* tenantId } }); the status column defaults to 'pending'.
CreateProject(t, u) ==
    /\ t \in DOMAIN tenants
    /\ u \in DOMAIN users
    /\ Cardinality(projects) < MaxProjects
    /\ projects' = projects \cup
          {[id |-> Cardinality(projects) + 1, tenantId |-> t, userId |-> u,
            status |-> "pending"]}
    /\ UNCHANGED <<accessVars, tenants, users, organizations, resourceUsage,
                   tenantSettings, now, req, quota, query>>
    /\ UNCHANGED serviceVars

\* A tenant-scoped query is made; its result is kept in query.
QueryTenantUsers(t) ==
    /\ query' = Some([op |-> "getTenantUsers", tenantId |-> t,
                      result |-> getTenantUsers(Db, t)])
    /\ UNCHANGED <<accessVars, storeVars, req, quota>>
    /\ UNCHANGED serviceVars

QueryTenantStats(t) ==
    /\ query' = Some([op |-> "getTenantStats", tenantId |-> t,
                      result |-> getTenantStats(Db, now, t)])
    /\ UNCHANGED <<accessVars, storeVars, req, quota>>
    /\ UNCHANGED serviceVars

QueryTenantSettings(t) ==
    /\ query' = Some([op |-> "getTenantSettings", tenantId |-> t,
                      result |-> getTenantSettings(Db, t)])
    /\ UNCHANGED <<accessVars, storeVars, req, quota>>
    /\ UNCHANGED serviceVars

\* The calendar moves on to the next month.
NextMonth ==
    /\ now < MaxMonth
    /\ now' = now + 1
    /\ UNCHANGED <<accessVars, tenants, users, organizations, projects,
                   resourceUsage, tenantSettings, req, quota, query>>
    /\ UNCHANGED serviceVars

(***************************************************************************)
(* TenantService: creating, updating and deleting tenants.                 *)
(***************************************************************************)
MaxCalls == 2        \* createTenant calls made during a run

CallIds == 1..MaxCalls

\* The ids the store generates for the rows a createTenant call inserts.
NewTenantId(i) == <<"t3", "t4", "t5">>[i]
NewUserId(i) == <<"u4", "u5", "u6">>[i]

\* data.domain is optional: left out it is undefined, and the column is NULL.
UndefinedDomain == "undefined"
NullDomain == "null"

\* The data createTenant is called with: slugs and domains that are stored
\* already (acme, acme.com), that are free and asked for by several calls
\* (gamma, delta, gamma.com), no domain, the empty string as domain, and
\* an owner email that a stored user has (u1@acme.com).
CreateInputs ==
    {[slug |-> "gamma", domain |-> UndefinedDomain, ownerEmail |-> "owner@gamma.com"],
     [slug |-> "gamma", domain |-> "gamma.com", ownerEmail |-> "owner@gamma.com"],
     [slug |-> "gamma", domain |-> "", ownerEmail |-> "owner@gamma.com"],
     [slug |-> "delta", domain |-> "gamma.com", ownerEmail |-> "owner@delta.com"],
     [slug |-> "delta", domain |-> "", ownerEmail |-> "u1@acme.com"],
     [slug |-> "delta", domain |-> "acme.com", ownerEmail |-> "owner@delta.com"],
     [slug |-> "acme", domain |-> UndefinedDomain, ownerEmail |-> "owner@acme.com"]}

SlugExists == "Tenant slug already exists"
DomainExists == "Domain already exists"
UniqueConstraintFailed == "Unique constraint failed"
ForeignKeyConstraintFailed == "Foreign key constraint failed"

IdleCreate ==
    [pc |-> "idle", slug |-> "", domain |-> UndefinedDomain,
     ownerEmail |-> "", result |-> Pending]

\* if (domain): undefined and the empty string are falsy
DomainGiven(domain) == domain \notin {UndefinedDomain, ""}

\* The value of the domain column for data.domain
DomainColumn(domain) == IF domain = UndefinedDomain THEN NullDomain ELSE domain

\* db.tenant.findUnique({ where: { slug } }) / ({ where: { domain } }): the
\* ids of the rows found
findTenantBySlug(slug) == {t \in DOMAIN tenants : tenants[t].slug = slug}
findTenantByDomain(domain) == {t \in DOMAIN tenants : tenants[t].domain = domain}

\* The tenants table with the UNIQUE constraint on slug only
tenantUniqueViolationSlugOnly(id, slug, domain) ==
    \E t \in DOMAIN tenants \ {id} : tenants[t].slug = slug

\* The UNIQUE constraints of the tenants table on slug and on domain (NULLs
\* are distinct from each other): a row id with this slug and domain
\* column violates them.
tenantUniqueViolation(id, slug, domain) ==
    \E t \in DOMAIN tenants \ {id} :
        \/ tenants[t].slug = slug
        \/ domain # NullDomain /\ tenants[t].domain = domain

\* The UNIQUE constraint of the users table on email
userUniqueViolation(email) == \E u \in DOMAIN users : users[u].email = email

\* A table (a function from ids to rows) with one more row
Insert(tbl, id, row) ==
    [k \in DOMAIN tbl \cup {id} |-> IF k = id THEN row ELSE tbl[k]]

\* createTenant is called with data { slug, domain, ownerEmail } and reaches
\* its first await.
StartCreateTenant(i, slug, domain, ownerEmail) ==
    /\ creates[i].pc = "idle"
    /\ \A j \in 1..(i - 1) : creates[j].pc # "idle"
    /\ creates' = [creates EXCEPT ![i] =
          [pc |-> "findSlug", slug |-> slug, domain |-> domain,
           ownerEmail |-> ownerEmail, result |-> Pending]]
    /\ UNCHANGED <<accessVars, storeVars, req, quota, query, subscriptions,
                   generation, staging>>
    /\ UNCHANGED <<resolved, clientVars>>

\* const existingTenant = await db.tenant.findUnique({ where: { slug } })
CreateTenantFindSlug(i) ==
    /\ creates[i].pc = "findSlug"
    /\ creates' = [creates EXCEPT ![i] =
          IF findTenantBySlug(@.slug) # {}
          THEN [@ EXCEPT !.pc = "done", !.result = Threw(SlugExists)]
          ELSE IF DomainGiven(@.domain) THEN [@ EXCEPT !.pc = "findDomain"]
          ELSE [@ EXCEPT !.pc = "createTenant"]]
    /\ UNCHANGED <<accessVars, storeVars, req, quota, query, subscriptions,
                   generation, staging>>
    /\ UNCHANGED <<resolved, clientVars>>

\* const existingDomain = await db.tenant.findUnique({ where: { domain } })
CreateTenantFindDomain(i) ==
    /\ creates[i].pc = "findDomain"
    /\ creates' = [creates EXCEPT ![i] =
          IF findTenantByDomain(@.domain) # {}
          THEN [@ EXCEPT !.pc = "done", !.result = Threw(DomainExists)]
          ELSE [@ EXCEPT !.pc = "createTenant"]]
    /\ UNCHANGED <<accessVars, storeVars, req, quota, query, subscriptions,
                   generation, staging>>
    /\ UNCHANGED <<resolved, clientVars>>

\* const tenant = await db.tenant.create({ data: { name, slug, domain,
\* planType, settings } }); planType defaults to 'free', status to 'active'.
CreateTenantInsertTenant(i) ==
    /\ creates[i].pc = "createTenant"
    /\ LET c == creates[i]
           id == NewTenantId(i)
       IN  IF tenantUniqueViolation(id, c.slug, DomainColumn(c.domain))
           THEN /\ creates' = [creates EXCEPT ![i].pc = "done",
                                   ![i].result = Threw(UniqueConstraintFailed)]
                /\ UNCHANGED tenants
           ELSE /\ creates' = [creates EXCEPT ![i].pc = "createUser"]
                /\ tenants' = Insert(tenants, id,
                      [planType |-> "free", status |-> "active",
                       slug |-> c.slug, domain |-> DomainColumn(c.domain)])
    /\ UNCHANGED <<accessVars, users, organizations, projects, resourceUsage,
                   tenantSettings, now, req, quota, query, subscriptions,
                   generation, staging>>
    /\ UNCHANGED <<resolved, clientVars>>

\* const user = await db.user.create({ data: { email: ownerEmail, name,
\* tenantId: tenant.id, role: 'owner' } })
CreateTenantInsertUser(i) ==
    /\ creates[i].pc = "createUser"
    /\ LET c == creates[i]
           failure ==
               IF userUniqueViolation(c.ownerEmail) THEN UniqueConstraintFailed
               ELSE IF NewTenantId(i) \notin DOMAIN tenants
               THEN ForeignKeyConstraintFailed
               ELSE "none"
       IN  IF failure # "none"
           THEN /\ creates' = [creates EXCEPT ![i].pc = "done",
                                   ![i].result = Threw(failure)]
                /\ UNCHANGED users
           ELSE /\ creates' = [creates EXCEPT ![i].pc = "createSubscription"]
                /\ users' = Insert(users, NewUserId(i),
                      [tenantId |-> NewTenantId(i), role |-> "owner",
                       status |-> "active", organizationId |-> "none",
                       createdAt |-> now, email |-> c.ownerEmail])
    /\ UNCHANGED <<accessVars, tenants, organizations, projects, resourceUsage,
                   tenantSettings, now, req, quota, query, subscriptions,
                   generation, staging>>
    /\ UNCHANGED <<resolved, clientVars>>

\* await db.subscription.create({ data: { userId, tenantId, plan } });
\* return { tenant, user }
CreateTenantInsertSubscription(i) ==
    /\ creates[i].pc = "createSubscription"
    /\ IF NewTenantId(i) \notin DOMAIN tenants \/ NewUserId(i) \notin DOMAIN users
       THEN /\ creates' = [creates EXCEPT ![i].pc = "done",
                               ![i].result = Threw(ForeignKeyConstraintFailed)]
            /\ UNCHANGED subscriptions
       ELSE /\ creates' = [creates EXCEPT ![i].pc = "done",
                               ![i].result = Returned(
                                   [tenant |-> NewTenantId(i),
                                    user |-> NewUserId(i)])]
            /\ subscriptions' = subscriptions \cup
                  {[userId |-> NewUserId(i), tenantId |-> NewTenantId(i),
                    plan |-> "free"]}
    /\ UNCHANGED <<accessVars, storeVars, req, quota, query, generation,
                   staging>>
    /\ UNCHANGED <<resolved, clientVars>>

\* TenantService.updateTenant(id, { domain }): db.tenant.update; the store
\* refuses a domain another tenant has.
UpdateTenant(t, domain) ==
    /\ t \in DOMAIN tenants
    /\ tenants[t].domain # domain
    /\ ~tenantUniqueViolation(t, tenants[t].slug, domain)
    /\ tenants' = [tenants EXCEPT ![t].domain = domain]
    /\ UNCHANGED <<accessVars, users, organizations, projects, resourceUsage,
                   tenantSettings, now, req, quota, query, serviceVars>>

\* TenantService.deleteTenant(id): db.tenant.delete, which "will cascade
\* delete all related data".
DeleteTenant(t) ==
    /\ t \in DOMAIN tenants
    /\ tenants' = [k \in DOMAIN tenants \ {t} |-> tenants[k]]
    /\ users' = [u \in {v \in DOMAIN users : users[v].tenantId # t} |-> users[u]]
    /\ organizations' = {o \in organizations : o.tenantId # t}
    /\ projects' = {q \in projects : q.tenantId # t}
    /\ resourceUsage' = Where(resourceUsage, LAMBDA u : u.tenantId # t)
    /\ tenantSettings' = {r \in tenantSettings : r.tenantId # t}
    /\ subscriptions' = {b \in subscriptions : b.tenantId # t}
    /\ UNCHANGED <<accessVars, now, req, quota, query, creates, generation,
                   staging>>
    /\ UNCHANGED <<resolved, clientVars>>

(***************************************************************************)
(* FalAIService: the client of the external image-generation API.          *)
(***************************************************************************)
MaxTour == 2         \* room descriptions passed to generateVirtualTour

\* What the upstream request can come to: an OK response, a non-OK
\* response, or a fetch that rejects (network error, or aborted).
UpstreamOutcomes == {"ok", "not_ok", "network_error", "aborted"}

\* The body of an OK response.
ImageData == [images |-> 1]

GenerationFailed == "Failed to generate image"

IdleGeneration ==
    [method |-> "none", upstream |-> <<>>, requests |-> 0, result |-> Pending]

\* generateImage that returns the body of the response whatever its status
generateImageUnchecked(outcome) ==
    [requests |-> 1,
     result |-> IF outcome \in {"ok", "not_ok"} THEN Returned(ImageData)
                ELSE Threw(GenerationFailed)]

\* FalAIService.generateImage: one fetch; a non-OK response throws inside
\* the try block, and the catch block rethrows every error as
\* 'Failed to generate image: ...'.
generateImage(outcome) ==
    [requests |-> 1,
     result |-> IF outcome = "ok" THEN Returned(ImageData)
                ELSE Threw(GenerationFailed)]

\* FalAIService.stageRoom: picks the prompt of the style and returns
\* generateImage's result.
stageRoom(outcome) == generateImage(outcome)

\* FalAIService.generateVirtualTour: one generateImage call per room
\* description; a call that throws is logged and the loop goes on; the
\* results of the calls that returned are returned.
RECURSIVE generateVirtualTour(_)
generateVirtualTour(outcomes) ==
    IF outcomes = <<>> THEN [requests |-> 0, result |-> Returned(<<>>)]
    ELSE LET call == generateImage(Head(outcomes))
             rest == generateVirtualTour(Tail(outcomes))
         IN  [requests |-> call.requests + rest.requests,
              result |-> Returned(
                  (IF call.result.outcome = "returned"
                   THEN <<call.result.value>> ELSE <<>>)
                  \o rest.result.value)]

\* The sequences of upstream outcomes of a tour of up to MaxTour rooms
RECURSIVE OutcomeSeqs(_)
OutcomeSeqs(n) ==
    IF n = 0 THEN {<<>>}
    ELSE OutcomeSeqs(n - 1) \cup
         {Append(q, o) : q \in {x \in OutcomeSeqs(n - 1) : Len(x) = n - 1},
                         o \in UpstreamOutcomes}

\* A call of the client, with the outcome of its upstream request(s).
CallGenerateImage ==
    /\ \E o \in UpstreamOutcomes :
          LET g == generateImage(o) IN
          generation' = [method |-> "generateImage", upstream |-> <<o>>,
                         requests |-> g.requests, result |-> g.result]
    /\ UNCHANGED <<accessVars, storeVars, req, quota, query, subscriptions,
                   creates, staging>>
    /\ UNCHANGED <<resolved, clientVars>>

CallStageRoom ==
    /\ \E o \in UpstreamOutcomes :
          LET g == stageRoom(o) IN
          generation' = [method |-> "stageRoom", upstream |-> <<o>>,
                         requests |-> g.requests, result |-> g.result]
    /\ UNCHANGED <<accessVars, storeVars, req, quota, query, subscriptions,
                   creates, staging>>
    /\ UNCHANGED <<resolved, clientVars>>

CallGenerateVirtualTour ==
    /\ \E outcomes \in OutcomeSeqs(MaxTour) :
          LET g == generateVirtualTour(outcomes) IN
          generation' = [method |-> "generateVirtualTour",
                         upstream |-> outcomes,
                         requests |-> g.requests, result |-> g.result]
    /\ UNCHANGED <<accessVars, storeVars, req, quota, query, subscriptions,
                   creates, staging>>
    /\ UNCHANGED <<resolved, clientVars>>

(***************************************************************************)
(* The staging operation behind POST /api/stage: a project is created,     *)
(* the room is staged by the generation client, and the project and the    *)
(* usage are settled on the outcome.                                       *)
(***************************************************************************)
IdleStaging == [pc |-> "idle", projectId |-> 0, tenantId |-> "none"]

\* The project table with the status of one project changed
SetProjectStatus(id, status) ==
    {IF q.id = id THEN [q EXCEPT !.status = status] ELSE q : q \in projects}

\* A staging operation starts: its project is created with status pending.
StartStaging(t, u) ==
    /\ staging.pc \in {"idle", "completed", "failed"}
    /\ t \in DOMAIN tenants
    /\ u \in DOMAIN users
    /\ Cardinality(projects) < MaxProjects
    /\ projects' = projects \cup
          {[id |-> Cardinality(projects) + 1, tenantId |-> t, userId |-> u,
            status |-> "pending"]}
    /\ staging' = [pc |-> "pending", projectId |-> Cardinality(projects) + 1,
                   tenantId |-> t]
    /\ UNCHANGED <<accessVars, tenants, users, organizations, resourceUsage,
                   tenantSettings, now, req, quota, query, subscriptions,
                   creates, generation>>
    /\ UNCHANGED <<resolved, clientVars>>

\* The project goes to processing and the generation call is issued.
StagingProcess ==
    /\ staging.pc = "pending"
    /\ projects' = SetProjectStatus(staging.projectId, "processing")
    /\ staging' = [staging EXCEPT !.pc = "processing"]
    /\ UNCHANGED <<accessVars, tenants, users, organizations, resourceUsage,
                   tenantSettings, now, req, quota, query, subscriptions,
                   creates, generation>>
    /\ UNCHANGED <<resolved, clientVars>>

\* stageRoom settles. Returned: the project is completed and one staging
\* usage event is recorded. Thrown: the project is failed and no usage is
\* recorded.
StagingGenerate ==
    /\ staging.pc = "processing"
    /\ \E o \in UpstreamOutcomes :
          LET g == stageRoom(o) IN
          /\ generation' = [method |-> "stageRoom", upstream |-> <<o>>,
                            requests |-> g.requests, result |-> g.result]
          /\ IF g.result.outcome = "returned"
             THEN /\ projects' = SetProjectStatus(staging.projectId, "completed")
                  /\ resourceUsage' =
                        trackResourceUsage(staging.tenantId, "staging", 1)
                  /\ staging' = [staging EXCEPT !.pc = "completed"]
             ELSE /\ projects' = SetProjectStatus(staging.projectId, "failed")
                  /\ UNCHANGED resourceUsage
                  /\ staging' = [staging EXCEPT !.pc = "failed"]
    /\ UNCHANGED <<accessVars, tenants, users, organizations, tenantSettings,
                   now, req, quota, query, subscriptions, creates>>
    /\ UNCHANGED <<resolved, clientVars>>

\* The caller retries a failed operation: its project goes back to pending.
RetryStaging ==
    /\ staging.pc = "failed"
    /\ projects' = SetProjectStatus(staging.projectId, "pending")
    /\ staging' = [staging EXCEPT !.pc = "pending"]
    /\ UNCHANGED <<accessVars, tenants, users, organizations, resourceUsage,
                   tenantSettings, now, req, quota, query, subscriptions,
                   creates, generation>>
    /\ UNCHANGED <<resolved, clientVars>>

(***************************************************************************)
(* Input domains.                                                          *)
(***************************************************************************)
Roles == {"viewer", "member", "admin", "owner"}
UnknownRoles == {"guest", "Admin"} \cup ObjectPrototypeKeys
PlanTiers == {"free", "pro", "enterprise"}
UnknownPlans == {"trial", "constructor"}
FeatureTags ==
    {"basic_staging", "5_projects", "1_user", "advanced_staging",
     "unlimited_projects", "team_members", "custom_branding", "api_access",
     "priority_support", "custom_domain", "webhooks"}
ResourceTypes == {"staging", "storage", "api_calls"}
UnknownResourceTypes == {"bandwidth", "constructor"}

(***************************************************************************)
(* SpecAccess: the inputs are drawn in Init, each action applies one of    *)
(* the pure checks to them.                                                *)
(***************************************************************************)
\* The access-check variables while no access check is under study.
AccessAtRest ==
    /\ role = "viewer"
    /\ requiredRole = "viewer"
    /\ planType = "free"
    /\ feature = "basic_staging"
    /\ resourceType = "staging"
    /\ permission = Pending
    /\ featureAccess = Pending
    /\ usageLimit = Pending

\* The store a run starts from: two active tenants with one organization
\* each, t1 on the free plan with users u1 (role r1) and u2 (member), t2 on
\* the pro plan with user u3 (admin); t1 has used its staging quota up to
\* one operation.
StoreWith(r1) ==
    /\ tenants = [t \in TenantIds |->
                    [planType |-> IF t = "t1" THEN "free" ELSE "pro",
                     status |-> "active",
                     slug |-> IF t = "t1" THEN "acme" ELSE "beta",
                     domain |-> IF t = "t1" THEN "acme.com" ELSE NullDomain]]
    /\ users = [u \in UserIds |->
                  [tenantId |-> IF u = "u3" THEN "t2" ELSE "t1",
                   role |-> CASE u = "u1" -> r1
                              [] u = "u2" -> "member"
                              [] u = "u3" -> "admin",
                   status |-> "active",
                   organizationId |-> IF u = "u2" THEN "o1" ELSE "none",
                   createdAt |-> CASE u = "u1" -> 0
                                   [] u = "u2" -> 1
                                   [] u = "u3" -> 2,
                   email |-> CASE u = "u1" -> "u1@acme.com"
                               [] u = "u2" -> "u2@acme.com"
                               [] u = "u3" -> "u3@beta.com"]]
    /\ organizations = {[id |-> "o1", tenantId |-> "t1"],
                        [id |-> "o2", tenantId |-> "t2"]}
    /\ projects = {}
    /\ resourceUsage = [i \in 1..SeedUsage |->
                           [tenantId |-> "t1", resourceType |-> "staging",
                            amount |-> 1, period |-> "monthly",
                            createdAt |-> 0]]
    /\ tenantSettings = {}
    /\ now = 0

(***************************************************************************)
(* The generation client modules (fal-ai and fal-ai-mock) and the route    *)
(* POST /api/test-fal-ai.                                                  *)
(***************************************************************************)
MaxInstances == 3

Modules == {"fal-ai", "fal-ai-mock"}
ApiKeys == {"k1", "k2"}

\* process.env: FAL_AI_API_KEY unset, empty or set
EnvKeys == {JSUndefined, JSString(""), JSString("env-key")}
Envs == [NODE_ENV : {"development", "production"}, FAL_AI_API_KEY : EnvKeys]
ProductionEnv == [NODE_ENV |-> "production", FAL_AI_API_KEY |-> JSString("env-key")]

\* An object made by new FalAIService(apiKey) / new MockFalAIService(apiKey),
\* or a Promise with the client it resolves to. n is its identity.
NewClient(class, apiKey, n) ==
    [class |-> class, id |-> n, apiKey |-> apiKey, resolved |-> Null]
NewPromise(client, n) ==
    [class |-> "Promise", id |-> n, apiKey |-> "none", resolved |-> Some(client)]

EnvKeyNotSet == "FAL_AI_API_KEY environment variable is not set"

\* getFalAIService of the fal-ai-mock module: the singleton, created on
\* first use with process.env.FAL_AI_API_KEY || 'mock-key'
mockGetFalAIService(e, mock, alloc) ==
    IF mock = Null
    THEN LET c == NewClient("MockFalAIService",
                            IF JSTruthy(e.FAL_AI_API_KEY)
                            THEN e.FAL_AI_API_KEY.name ELSE "mock-key",
                            alloc + 1)
         IN  [result |-> Returned(c), mock |-> Some(c), allocated |-> alloc + 1]
    ELSE [result |-> Returned(mock[1]), mock |-> mock, allocated |-> alloc]

\* getFalAIService of the fal-ai module: in development without a key, a
\* Promise of the mock module's client; otherwise the singleton, created on
\* first use from process.env.FAL_AI_API_KEY, or an error without that key.
getFalAIService(e, real, mock, alloc) ==
    IF e.NODE_ENV = "development" /\ ~JSTruthy(e.FAL_AI_API_KEY)
    THEN LET m == mockGetFalAIService(e, mock, alloc)
         IN  [result |-> Returned(NewPromise(m.result.value, m.allocated + 1)),
              real |-> real, mock |-> m.mock, allocated |-> m.allocated + 1]
    ELSE IF real = Null
    THEN IF ~JSTruthy(e.FAL_AI_API_KEY)
         THEN [result |-> Threw(EnvKeyNotSet), real |-> real, mock |-> mock,
               allocated |-> alloc]
         ELSE LET c == NewClient("FalAIService", e.FAL_AI_API_KEY.name, alloc + 1)
              IN  [result |-> Returned(c), real |-> Some(c), mock |-> mock,
                   allocated |-> alloc + 1]
    ELSE [result |-> Returned(real[1]), real |-> real, mock |-> mock,
          allocated |-> alloc]

\* What a caller of a module has seen: the key of the last initializeFalAI
\* and the result of the last getFalAIService since.
NoCalls == [initKey |-> Null, last |-> Null]

CallGetFalAIService(m) ==
    LET r == IF m = "fal-ai"
             THEN getFalAIService(env, falAIService, mockFalAIService, allocated)
             ELSE LET g == mockGetFalAIService(env, mockFalAIService, allocated)
                  IN  [result |-> g.result, real |-> falAIService,
                       mock |-> g.mock, allocated |-> g.allocated]
    IN  /\ r.allocated <= MaxInstances
        /\ falAIService' = r.real
        /\ mockFalAIService' = r.mock
        /\ allocated' = r.allocated
        /\ calls' = [calls EXCEPT ![m].last = Some(r.result)]
        /\ UNCHANGED <<accessVars, storeVars, req, quota, query, subscriptions,
                       creates, generation, staging, resolved, env, keyTest>>

\* initializeFalAI(apiKey) of either module: the singleton is replaced
CallInitializeFalAI(m, apiKey) ==
    /\ allocated < MaxInstances
    /\ allocated' = allocated + 1
    /\ IF m = "fal-ai"
       THEN /\ falAIService' = Some(NewClient("FalAIService", apiKey, allocated + 1))
            /\ UNCHANGED mockFalAIService
       ELSE /\ mockFalAIService' = Some(NewClient("MockFalAIService", apiKey, allocated + 1))
            /\ UNCHANGED falAIService
    /\ calls' = [calls EXCEPT ![m] = [initKey |-> Some(apiKey), last |-> Null]]
    /\ UNCHANGED <<accessVars, storeVars, req, quota, query, subscriptions,
                   creates, generation, staging, resolved, env, keyTest>>

\* FalAIService.validateApiKey: response.ok, and false when the fetch fails
validateApiKey(outcome) == outcome = "ok"

\* The two sources of the route handler
KeyTestHandlers == {"route.ts", "part_000"}

\* The bodies posted to the route: not JSON, or JSON with apiKey missing,
\* empty or given
KeyTestBodies ==
    {[json |-> FALSE, apiKey |-> JSUndefined]}
        \cup {[json |-> TRUE, apiKey |-> k] :
                 k \in {JSUndefined, JSString(""), JSString("k1")}}

IdleKeyTest ==
    [pc |-> "idle", handler |-> "none",
     body |-> [json |-> FALSE, apiKey |-> JSUndefined],
     upstream |-> "none", validations |-> 0,
     status |-> 0, success |-> FALSE, message |-> "none"]

KeyRequired == "API key is required"
KeyValid == "FAL AI API key is valid and working correctly!"
KeyInvalid == "FAL AI API key is invalid or not working"
KeyValidationFailed == "Failed to validate FAL AI API key"
KeyTestError == "Internal server error during FAL AI test"

\* NextResponse.json(body, { status }); the status is 200 when not given
KeyTestResponse(r, status, success, message) ==
    [r EXCEPT !.pc = "done", !.status = status, !.success = success,
              !.message = message]

\* The request arrives; the handler awaits request.json(). upstream is the
\* answer the FAL service has for a request made with the posted key.
ReceiveKeyTest(handler, body, upstream) ==
    /\ keyTest.pc \in {"idle", "done"}
    /\ keyTest' = [IdleKeyTest EXCEPT !.pc = "parsing", !.handler = handler,
                                      !.body = body, !.upstream = upstream]
    /\ UNCHANGED <<accessVars, storeVars, req, quota, query, subscriptions,
                   creates, generation, staging, resolved, env, falAIService,
                   mockFalAIService, allocated, calls>>

\* POST of route.ts after request.json(): 500 for a body that is not JSON,
\* 400 without apiKey, otherwise a client of its own is constructed and its
\* validateApiKey is awaited.
PostKeyTest ==
    /\ keyTest.pc = "parsing"
    /\ keyTest.handler = "route.ts"
    /\ IF ~keyTest.body.json
       THEN /\ keyTest' = KeyTestResponse(keyTest, 500, FALSE, KeyTestError)
            /\ UNCHANGED allocated
       ELSE IF ~JSTruthy(keyTest.body.apiKey)
       THEN /\ keyTest' = KeyTestResponse(keyTest, 400, FALSE, KeyRequired)
            /\ UNCHANGED allocated
       ELSE /\ allocated < MaxInstances
            /\ allocated' = allocated + 1
            /\ keyTest' = [keyTest EXCEPT !.pc = "validating",
                                          !.validations = @ + 1]
    /\ UNCHANGED <<accessVars, storeVars, req, quota, query, subscriptions,
                   creates, generation, staging, resolved, env, falAIService,
                   mockFalAIService, calls>>

\* POST of route.ts when validateApiKey settles
KeyTestValidated ==
    /\ keyTest.pc = "validating"
    /\ keyTest' = IF validateApiKey(keyTest.upstream)
                  THEN KeyTestResponse(keyTest, 200, TRUE, KeyValid)
                  ELSE KeyTestResponse(keyTest, 400, FALSE, KeyInvalid)
    /\ UNCHANGED <<accessVars, storeVars, req, quota, query, subscriptions,
                   creates, generation, staging, resolved, env, falAIService,
                   mockFalAIService, allocated, calls>>

\* POST of part_000 after request.json(): 500 for a body that is not JSON,
\* 400 without apiKey, otherwise initializeFalAI(apiKey) is called twice;
\* it returns nothing, so the call of validateApiKey on its result throws
\* and the inner catch block answers.
PostKeyTestInitializing ==
    /\ keyTest.pc = "parsing"
    /\ keyTest.handler = "part_000"
    /\ IF ~keyTest.body.json
       THEN /\ keyTest' = KeyTestResponse(keyTest, 500, FALSE, KeyTestError)
            /\ UNCHANGED <<allocated, falAIService, calls>>
       ELSE IF ~JSTruthy(keyTest.body.apiKey)
       THEN /\ keyTest' = KeyTestResponse(keyTest, 400, FALSE, KeyRequired)
            /\ UNCHANGED <<allocated, falAIService, calls>>
       ELSE /\ allocated + 2 <= MaxInstances
            /\ allocated' = allocated + 2
            /\ falAIService' = Some(NewClient("FalAIService",
                                              keyTest.body.apiKey.name,
                                              allocated + 2))
            /\ calls' = [calls EXCEPT !["fal-ai"] =
                            [initKey |-> Some(keyTest.body.apiKey.name),
                             last |-> Null]]
            /\ keyTest' = KeyTestResponse(keyTest, 400, FALSE, KeyValidationFailed)
    /\ UNCHANGED <<accessVars, storeVars, req, quota, query, subscriptions,
                   creates, generation, staging, resolved, env,
                   mockFalAIService>>

\* No call made yet; the module singletons are unset.
ServicesAtRest ==
    /\ req = IdleRequest
    /\ quota = Null
    /\ query = Null
    /\ subscriptions = {}
    /\ creates = [i \in CallIds |-> IdleCreate]
    /\ generation = IdleGeneration
    /\ staging = IdleStaging
    /\ resolved = Null
    /\ falAIService = Null
    /\ mockFalAIService = Null
    /\ allocated = 0
    /\ calls = [m \in Modules |-> NoCalls]
    /\ keyTest = IdleKeyTest

CallersAtRest ==
    /\ ServicesAtRest
    /\ env = ProductionEnv

InitAccess ==
    /\ StoreWith("viewer")
    /\ CallersAtRest
    /\ role \in Roles \cup UnknownRoles
    /\ requiredRole \in Roles \cup UnknownRoles
    /\ planType \in PlanTiers \cup UnknownPlans
    /\ feature \in FeatureTags
    /\ resourceType \in ResourceTypes \cup UnknownResourceTypes
    /\ permission = Pending
    /\ featureAccess = Pending
    /\ usageLimit = Pending

CallHasPermission ==
    /\ permission.outcome = "pending"
    /\ permission' = Returned(hasPermission(role, requiredRole))
    /\ UNCHANGED <<role, requiredRole, planType, feature, resourceType,
                   featureAccess, usageLimit>>
    /\ UNCHANGED <<storeVars, req, quota, query>>
    /\ UNCHANGED serviceVars

CallHasFeatureAccess ==
    /\ featureAccess.outcome = "pending"
    /\ featureAccess' = hasFeatureAccess(planType, feature)
    /\ UNCHANGED <<role, requiredRole, planType, feature, resourceType,
                   permission, usageLimit>>
    /\ UNCHANGED <<storeVars, req, quota, query>>
    /\ UNCHANGED serviceVars

CallGetUsageLimit ==
    /\ usageLimit.outcome = "pending"
    /\ usageLimit' = Returned(getUsageLimit(planType, resourceType))
    /\ UNCHANGED <<role, requiredRole, planType, feature, resourceType,
                   permission, featureAccess>>
    /\ UNCHANGED <<storeVars, req, quota, query>>
    /\ UNCHANGED serviceVars

NextAccess ==
    \/ CallHasPermission
    \/ CallHasFeatureAccess
    \/ CallGetUsageLimit

SpecAccess == InitAccess /\ [][NextAccess]_vars

(***************************************************************************)
(* SpecGate: requests pass the gates while tenants and users are suspended *)
(* and reactivated.                                                        *)
(***************************************************************************)
InitGate ==
    /\ AccessAtRest
    /\ StoreWith("viewer")
    /\ CallersAtRest

NextGate ==
    \/ \E s \in SessionIds \cup {NoSession} :
          \/ \E op \in Operations : StartRequest("withTenant", s, op)
          \/ StartRequest("tenantMiddleware", s, "view")
    \/ ResolveContext
    \/ HandleView
    \/ HandleStage
    \/ HandleConfigure
    \/ HandlerThrows
    \/ \E t \in TenantIds, st \in TenantStatuses : SetTenantStatus(t, st)
    \/ \E u \in {"u1", "u3"}, st \in UserStatuses : SetUserStatus(u, st)

SpecGate == InitGate /\ [][NextGate]_vars

(***************************************************************************)
(* Spec: usage metering and quota. Usage is recorded directly and by       *)
(* staging requests passing withTenant, quota is checked, months pass.     *)
(***************************************************************************)
Init ==
    /\ AccessAtRest
    /\ \E r1 \in {"viewer", "owner"} : StoreWith(r1)
    /\ CallersAtRest

Next ==
    \/ \E t \in TenantIds, rt \in MeteredTypes, a \in Amounts :
          TrackResourceUsage(t, rt, a)
    \/ \E t \in TenantIds, rt \in MeteredTypes : CheckQuota(t, rt)
    \/ \E s \in {"u1", "u3"} : StartRequest("withTenant", s, "stage")
    \/ ResolveContext
    \/ HandleStage
    \/ HandlerThrows
    \/ NextMonth

Spec == Init /\ [][Next]_vars

(***************************************************************************)
(* SpecStore: the tenant-scoped queries over a store that two tenants fill *)
(* with users, organizations, projects, usage rows and settings.           *)
(***************************************************************************)
InitQueries ==
    /\ AccessAtRest
    /\ StoreWith("owner")
    /\ CallersAtRest

NextStore ==
    \/ \E t \in TenantIds : TrackResourceUsage(t, "staging", 1)
    \/ \E t \in TenantIds, k \in SettingKeys : UpdateTenantSetting(t, k, "light")
    \/ \E u \in {"u1", "u3"} : CreateProject(users[u].tenantId, u)
    \/ \E t \in TenantIds : QueryTenantUsers(t)
    \/ \E t \in TenantIds : QueryTenantStats(t)
    \/ \E t \in TenantIds : QueryTenantSettings(t)
    \/ NextMonth

SpecStore == InitQueries /\ [][NextStore]_vars

(***************************************************************************)
(* SpecTenants: createTenant calls interleave at their awaits while        *)
(* tenants are updated and deleted and usage is recorded.                  *)
(***************************************************************************)
InitTenants ==
    /\ AccessAtRest
    /\ StoreWith("owner")
    /\ CallersAtRest

NextTenants ==
    \/ \E i \in CallIds, d \in CreateInputs :
          StartCreateTenant(i, d.slug, d.domain, d.ownerEmail)
    \/ \E i \in CallIds : CreateTenantFindSlug(i)
    \/ \E i \in CallIds : CreateTenantFindDomain(i)
    \/ \E i \in CallIds : CreateTenantInsertTenant(i)
    \/ \E i \in CallIds : CreateTenantInsertUser(i)
    \/ \E i \in CallIds : CreateTenantInsertSubscription(i)
    \/ UpdateTenant("t2", "gamma.com")
    \/ \E t \in {"t1", NewTenantId(1)} : DeleteTenant(t)
    \/ TrackResourceUsage("t1", "staging", 1)

SpecTenants == InitTenants /\ [][NextTenants]_vars

(***************************************************************************)
(* SpecGeneration: calls of the generation client, and staging operations  *)
(* that use it.                                                            *)
(***************************************************************************)
InitGeneration ==
    /\ AccessAtRest
    /\ StoreWith("owner")
    /\ CallersAtRest

NextGeneration ==
    \/ CallGenerateImage
    \/ CallStageRoom
    \/ CallGenerateVirtualTour
    \/ \E u \in {"u1", "u3"} : StartStaging(users[u].tenantId, u)
    \/ StagingProcess
    \/ StagingGenerate
    \/ RetryStaging

SpecGeneration == InitGeneration /\ [][NextGeneration]_vars

(***************************************************************************)
(* SpecDirectory: getTenantContext is called again and again while tenants *)
(* and users change status.                                                *)
(***************************************************************************)
InitDirectory ==
    /\ AccessAtRest
    /\ StoreWith("owner")
    /\ CallersAtRest

NextDirectory ==
    \/ \E s \in SessionIds \cup {NoSession} : CallGetTenantContext(s)
    \/ \E t \in TenantIds, st \in TenantStatuses : SetTenantStatus(t, st)
    \/ \E u \in {"u1", "u3"}, st \in UserStatuses : SetUserStatus(u, st)

SpecDirectory == InitDirectory /\ [][NextDirectory]_vars

(***************************************************************************)
(* SpecSettings: the settings of two tenants are written and read.         *)
(***************************************************************************)
\* Keys settings are written under: an ordinary one, and one that names a
\* member of Object.prototype.
SettingKeyInputs == SettingKeys \cup {"__proto__"}

InitSettings ==
    /\ AccessAtRest
    /\ StoreWith("owner")
    /\ CallersAtRest

NextSettings ==
    \/ \E t \in TenantIds, k \in SettingKeyInputs, v \in SettingValues :
          UpdateTenantSetting(t, k, v)
    \/ \E t \in TenantIds : QueryTenantSettings(t)

SpecSettings == InitSettings /\ [][NextSettings]_vars

(***************************************************************************)
(* SpecClient: callers get and initialize the generation client of both    *)
(* modules, and keys are tested through POST /api/test-fal-ai, under       *)
(* every environment setting.                                              *)
(***************************************************************************)
InitClient ==
    /\ AccessAtRest
    /\ StoreWith("owner")
    /\ ServicesAtRest
    /\ env \in Envs

NextClient ==
    \/ \E m \in Modules : CallGetFalAIService(m)
    \/ \E m \in Modules, k \in ApiKeys : CallInitializeFalAI(m, k)
    \/ \E h \in KeyTestHandlers, b \in KeyTestBodies,
          o \in {"ok", "not_ok", "network_error"} : ReceiveKeyTest(h, b, o)
    \/ PostKeyTest
    \/ KeyTestValidated
    \/ PostKeyTestInitializing

SpecClient == InitClient /\ [][NextClient]_vars

(***************************************************************************)
(* SpecUsage: usage events of every amount trackResourceUsage accepts are  *)
(* recorded and the statistics are read while the months pass.             *)
(***************************************************************************)
\* trackResourceUsage takes any number as amount and the column is
\* INTEGER NOT NULL: corrections below zero are stored like any other.
AcceptedAmounts == Amounts \cup {-1}

InitUsage ==
    /\ AccessAtRest
    /\ StoreWith("owner")
    /\ CallersAtRest

NextUsage ==
    \/ \E t \in TenantIds, rt \in MeteredTypes, a \in AcceptedAmounts :
          TrackResourceUsage(t, rt, a)
    \/ \E t \in TenantIds : QueryTenantStats(t)
    \/ NextMonth

SpecUsage == InitUsage /\ [][NextUsage]_vars

(***************************************************************************)
(* SpecMiddleware: requests with client-chosen headers pass                *)
(* tenantMiddleware while a tenant and a user change status.               *)
(***************************************************************************)
InitMiddleware ==
    /\ AccessAtRest
    /\ StoreWith("viewer")
    /\ CallersAtRest

NextMiddleware ==
    \/ \E s \in SessionIds \cup {NoSession}, lines \in ClientHeaders :
          StartMiddlewareRequest(s, lines)
    \/ ResolveContext
    \/ \E st \in TenantStatuses : SetTenantStatus("t1", st)
    \/ \E st \in UserStatuses : SetUserStatus("u1", st)

SpecMiddleware == InitMiddleware /\ [][NextMiddleware]_vars

(***************************************************************************)
(* Properties of the pure access checks (checked under SpecAccess).        *)
(***************************************************************************)
\* The order of the roles as the specification states it.
RoleRank(r) ==
    CASE r = "viewer" -> 0
      [] r = "member" -> 1
      [] r = "admin" -> 2
      [] r = "owner" -> 3

\* C1: for known roles r1, r2, hasPermission(r1, r2) returns true iff
\* rank(r1) >= rank(r2) under viewer=0 < member=1 < admin=2 < owner=3.
C1_RoleOrder ==
    (permission.outcome = "returned" /\ role \in Roles /\ requiredRole \in Roles)
        => (permission.value <=> RoleRank(role) >= RoleRank(requiredRole))

\* C1 witness: admin was checked against member and satisfied it.
C1_Witness ==
    /\ role = "admin"
    /\ requiredRole = "member"
    /\ permission = Returned(TRUE)

\* The tags the table lists for a tier.
TierFeatures(p) ==
    {featureMatrix[p].items[i] : i \in 1..Len(featureMatrix[p].items)}

\* C7: for the three plan tiers, hasFeatureAccess(tier, feature) returns
\* true iff the tag is in that tier's own list (no inheritance between
\* tiers); (free, custom_domain) is false, (enterprise, custom_domain) true.
C7_FeatureMembership ==
    (featureAccess.outcome # "pending" /\ planType \in PlanTiers)
        => /\ featureAccess = Returned(feature \in TierFeatures(planType))
           /\ (planType = "free" /\ feature = "custom_domain")
                 => featureAccess = Returned(FALSE)
           /\ (planType = "enterprise" /\ feature = "custom_domain")
                 => featureAccess = Returned(TRUE)

\* C7 witness: pro was asked for a tag that only free lists, and refused.
C7_Witness ==
    /\ planType = "pro"
    /\ feature = "5_projects"
    /\ featureAccess = Returned(FALSE)

\* C8: deny by default. An unknown role on either side makes hasPermission
\* return false, an unknown plan tier makes hasFeatureAccess return false,
\* and neither raises an error.
C8_DenyByDefault ==
    /\ (permission.outcome = "returned"
          /\ (role \notin Roles \/ requiredRole \notin Roles))
         => permission.value = FALSE
    /\ (featureAccess.outcome # "pending" /\ planType \notin PlanTiers)
         => featureAccess = Returned(FALSE)

(***************************************************************************)
(* Properties of the tenant directory and the gate (checked under          *)
(* SpecGate).                                                              *)
(***************************************************************************)
\* The step in which the gate resolves the request's context.
Resolves == req.pc = "resolving" /\ req'.pc # "resolving"

\* The records make the session eligible for a context: it carries a user
\* id, that user has a row and a tenant, and both are active.
Eligible(session) ==
    /\ session # NoSession
    /\ session \in DOMAIN users
    /\ users[session].tenantId \in DOMAIN tenants
    /\ tenants[users[session].tenantId].status = "active"
    /\ users[session].status = "active"

\* The context carries the tenant of the user's row and the session's user.
ContextMatches(r) ==
    r.context # Null =>
        /\ r.context[1].tenant.id = users[r.session].tenantId
        /\ r.context[1].user.id = r.session

C9_SuspensionDenies ==
    [][(/\ Resolves
        /\ req.session \in DOMAIN users
        /\ \/ tenants[users[req.session].tenantId].status # "active"
           \/ users[req.session].status # "active")
       => /\ req'.context = Null
          /\ req'.pc = "done"
          /\ req'.handlerRuns = 0
          /\ req'.response = IF req.kind = "withTenant"
                             THEN "401 Unauthorized"
                             ELSE "redirect /login"]_vars

\* C9 witness: an active user of a suspended tenant was answered 401.
C9_Witness ==
    /\ req.pc = "done"
    /\ req.kind = "withTenant"
    /\ req.session = "u1"
    /\ users["u1"].status = "active"
    /\ tenants["t1"].status = "suspended"
    /\ req.response = "401 Unauthorized"
    /\ req.fault = "none"

\* C10: a viewer's request for an operation that requires admin is rejected
\* with InsufficientRole and its handler is never called.
C10_ViewerRejectedBeforeHandler ==
    (/\ req.kind = "withTenant"
     /\ req.pc \in {"handler", "done"}
     /\ req.session \in DOMAIN users
     /\ users[req.session].role = "viewer"
     /\ RequiredRole(req.op) = "admin"
     /\ req.context # Null \/ req.response # "401 Unauthorized")
        => /\ req.pc = "done"
           /\ req.handlerRuns = 0
           /\ req.response = "403 InsufficientRole"

(***************************************************************************)
(* Properties of the tenant-scoped queries (checked under SpecStore).      *)
(***************************************************************************)
\* The tables with every row owned by tenant b taken out.
Without(db, b) ==
    [users |-> [u \in {v \in DOMAIN db.users : db.users[v].tenantId # b}
                  |-> db.users[u]],
     organizations |-> {o \in db.organizations : o.tenantId # b},
     projects |-> {q \in db.projects : q.tenantId # b},
     resourceUsage |-> Where(db.resourceUsage, LAMBDA u : u.tenantId # b),
     tenantSettings |-> {r \in db.tenantSettings : r.tenantId # b}]

\* C3: tenant isolation. A query scoped to tenant a returns only rows whose
\* tenantId is a, and no row owned by another tenant b contributes to it:
\* the users, the three counts, the monthly usage and the settings
\* returned for a are the same with b's rows taken out of every table.
C3_TenantIsolation ==
    /\ \A a \in TenantIds :
          /\ \A i \in DOMAIN getTenantUsers(Db, a) :
                getTenantUsers(Db, a)[i].tenantId = a
          /\ \A b \in TenantIds \ {a} :
                /\ getTenantUsers(Without(Db, b), a) = getTenantUsers(Db, a)
                /\ getTenantStats(Without(Db, b), now, a)
                      = getTenantStats(Db, now, a)
                /\ getTenantSettings(Without(Db, b), a)
                      = getTenantSettings(Db, a)
    /\ (query # Null /\ query[1].op = "getTenantUsers")
          => \A i \in DOMAIN query[1].result :
                query[1].result[i].tenantId = query[1].tenantId

\* C3 witness: the statistics of t1 were queried while t2 owned a user, a
\* project, a usage row of the current month and a setting.
C3_Witness ==
    /\ query # Null
    /\ query[1].op = "getTenantStats"
    /\ query[1].tenantId = "t1"
    /\ query[1].result = getTenantStats(Db, now, "t1")
    /\ \E q \in projects : q.tenantId = "t2"
    /\ \E q \in projects : q.tenantId = "t1"
    /\ \E i \in DOMAIN resourceUsage :
          resourceUsage[i].tenantId = "t2" /\ resourceUsage[i].createdAt = now
    /\ \E r \in tenantSettings : r.tenantId = "t2"

(***************************************************************************)
(* Properties of usage metering and quota (checked under Spec).            *)
(***************************************************************************)
Max(a, b) == IF a >= b THEN a ELSE b

\* The step appends one usage row of the given tenant, type and amount.
Records(t, rt, amount) ==
    /\ Len(resourceUsage') = Len(resourceUsage) + 1
    /\ SubSeq(resourceUsage', 1, Len(resourceUsage)) = resourceUsage
    /\ LET row == resourceUsage'[Len(resourceUsage')] IN
          /\ row.tenantId = t
          /\ row.resourceType = rt
          /\ row.amount = amount

\* C4: a staging request that reaches the gate while the tenant's remaining
\* staging quota is 0 or less is rejected with QuotaExceeded, and no step of
\* a request made in that situation appends a usage event.
C4_QuotaRejection ==
    [][/\ (/\ Resolves
           /\ Metered(req.op)
           /\ Eligible(req.session)
           /\ req'.fault = "none"
           /\ checkQuota(users[req.session].tenantId, "staging").remaining <= 0)
          => /\ req'.pc = "done"
             /\ req'.response = "429 QuotaExceeded"
       /\ (/\ req.pc = "handler"
           /\ req'.pc = "done"
           /\ Metered(req.op)
           /\ checkQuota(req.context[1].tenant.id, "staging").remaining <= 0)
          => resourceUsage' = resourceUsage]_vars

\* C5: recording one staging operation for a tenant raises the used count
\* checkQuota reports for it by exactly 1 and lowers remaining by exactly 1,
\* remaining staying at 0 once it is 0; the quota of every other tenant and
\* resource type is unchanged.
C5_QuotaMonotonicity ==
    [][\A t \in TenantIds :
          Records(t, "staging", 1) =>
            /\ checkQuota(t, "staging")'.used = checkQuota(t, "staging").used + 1
            /\ checkQuota(t, "staging")'.remaining
                 = Max(0, checkQuota(t, "staging").remaining - 1)
            /\ \A t2 \in TenantIds, rt \in MeteredTypes :
                  (t2 # t \/ rt # "staging")
                     => checkQuota(t2, rt)' = checkQuota(t2, rt)]_vars

\* C6: checkQuota returns remaining = max(0, limit - used), never a
\* negative number.
C6_RemainingClamped ==
    quota # Null =>
        LET q == quota[1].result IN
        /\ q.remaining = Max(0, q.limit - q.used)
        /\ q.remaining >= 0

(***************************************************************************)
(* Rejection reasons of the gate (checked under SpecGate).                 *)
(***************************************************************************)
\* The first step of the specification's fixed order that fails for a
\* session on the records as they are: no identity, then no tenant context
\* (no user row, no tenant, tenant or user not active).
RejectionCause(session) ==
    IF session = NoSession THEN "Unauthenticated"
    ELSE IF ~Eligible(session) THEN "NoTenantContext"
    ELSE "none"

\* What a gate of the given kind answers to a request of the session when
\* no lookup throws.
GateAnswer(kind, session) ==
    LET r == [IdleRequest EXCEPT !.pc = "resolving", !.kind = kind,
                                 !.session = session]
        ctx == getTenantContext(session, "none")
    IN  IF kind = "withTenant" THEN withTenant(r, ctx, "none").response
        ELSE tenantMiddleware(r, ctx, "none").response

\* C11: a request the gate rejects is not admitted (its handler does not
\* run) and is answered with the tag of its cause, and the tags are distinct
\* per cause: the answer to a rejected request differs from the answer the
\* same gate gives to any session that is rejected for a different cause, so
\* a missing identity is told apart from a missing or inactive tenant/user.
C11_DistinctReasons ==
    [][(/\ Resolves
        /\ req'.fault = "none"
        /\ RejectionCause(req.session) # "none")
       => /\ req'.pc = "done"
          /\ req'.context = Null
          /\ req'.handlerRuns = 0
          /\ \A s2 \in SessionIds \cup {NoSession} :
                RejectionCause(s2) \notin {"none", RejectionCause(req.session)}
                   => GateAnswer(req.kind, s2) # req'.response]_vars

(***************************************************************************)
(* The period window of usage (checked under Spec).                        *)
(***************************************************************************)
\* The sum of the amounts of the monthly usage events of a tenant and
\* resource type recorded since the first of the current month.
CurrentUsage(t, rt) ==
    SumAmounts(Where(resourceUsage,
                     LAMBDA u : /\ u.tenantId = t
                                /\ u.resourceType = rt
                                /\ u.period = "monthly"
                                /\ u.createdAt >= now))

\* The usage getTenantStats reports for a resource type (a type without
\* rows has no entry).
StatsUsage(t, rt) ==
    LET monthlyUsage == getTenantStats(Db, now, t).monthlyUsage IN
    IF rt \in DOMAIN monthlyUsage THEN monthlyUsage[rt] ELSE 0

\* C12: the usage getTenantStats reports, and the used count every
\* checkQuota call returns, is the sum of the amounts of exactly the events
\* of that tenant and resource type recorded in the current month; events
\* of an earlier month do not count.
C12_CurrentPeriodUsage ==
    [][/\ \A t \in TenantIds, rt \in MeteredTypes :
             StatsUsage(t, rt)' = CurrentUsage(t, rt)'
       /\ \A t \in TenantIds, rt \in MeteredTypes :
             (/\ quota' # quota
              /\ quota' # Null
              /\ quota'[1].tenantId = t
              /\ quota'[1].resourceType = rt)
                => quota'[1].result.used = CurrentUsage(t, rt)']_vars

(***************************************************************************)
(* Unconfigured limits (checked under SpecAccess).                         *)
(***************************************************************************)
\* C13: for every plan tier and every resource type outside staging,
\* storage and api_calls, getUsageLimit returns the number 0.
C13_UnconfiguredLimitIsZero ==
    (usageLimit.outcome = "returned" /\ resourceType \notin ResourceTypes)
        => usageLimit.value = JSNumber(0)

(***************************************************************************)
(* Properties of the tenant table (checked under SpecTenants).             *)
(***************************************************************************)
\* No two stored tenants share a slug.
UniqueSlugs ==
    \A a, b \in DOMAIN tenants : a # b => tenants[a].slug # tenants[b].slug

\* No two stored tenants share a domain, stored NULLs apart.
UniqueDomains ==
    \A a, b \in DOMAIN tenants :
        (a # b /\ tenants[a].domain # NullDomain)
            => tenants[a].domain # tenants[b].domain

\* Some stored tenant has the slug / the domain.
SlugTaken(slug) == \E t \in DOMAIN tenants : tenants[t].slug = slug
DomainTaken(domain) == \E t \in DOMAIN tenants : tenants[t].domain = domain

\* Call i fails in this step, before it stored anything.
FailsUnstored(i) ==
    /\ creates[i].pc \in {"findSlug", "findDomain", "createTenant"}
    /\ creates'[i].pc = "done"

\* C14 as stated: whatever the interleaving of createTenant calls, no two
\* stored tenants share a slug or a domain, and a call that fails because
\* its slug or domain is taken fails with 'Tenant slug already exists' or
\* 'Domain already exists'.
C14_UniqueAndNamedFailure ==
    [][/\ UniqueSlugs'
       /\ UniqueDomains'
       /\ \A i \in CallIds :
             FailsUnstored(i) =>
                creates'[i].result \in {Threw(SlugExists), Threw(DomainExists)}]_vars

\* C14 amended: no two stored tenants share a slug or a domain; a call that
\* finds its slug stored at its lookup fails with 'Tenant slug already
\* exists', one that finds its non-empty domain stored at its lookup fails
\* with 'Domain already exists', and one whose slug or domain is stored when
\* it inserts fails with the store's unique-constraint error; a failing
\* call stores no tenant, and a call that passes all three stores a tenant
\* with its slug and domain.
C14_UniqueOrConstraintFailure ==
    [][/\ UniqueSlugs'
       /\ UniqueDomains'
       /\ \A i \in CallIds :
             LET c == creates[i] IN
             /\ (c.pc = "findSlug" /\ creates'[i].pc # "findSlug")
                   => /\ SlugTaken(c.slug)
                            <=> creates'[i].result = Threw(SlugExists)
                      /\ tenants' = tenants
             /\ (c.pc = "findDomain" /\ creates'[i].pc # "findDomain")
                   => /\ c.domain # ""
                      /\ DomainTaken(c.domain)
                            <=> creates'[i].result = Threw(DomainExists)
                      /\ tenants' = tenants
             /\ (c.pc = "createTenant" /\ creates'[i].pc # "createTenant")
                   => IF SlugTaken(c.slug)
                         \/ (c.domain # UndefinedDomain /\ DomainTaken(c.domain))
                      THEN /\ creates'[i].result = Threw(UniqueConstraintFailed)
                           /\ tenants' = tenants
                      ELSE /\ creates'[i].pc = "createUser"
                           /\ \E t \in DOMAIN tenants' \ DOMAIN tenants :
                                 /\ tenants'[t].slug = c.slug
                                 /\ c.domain # UndefinedDomain
                                       => tenants'[t].domain = c.domain]_vars

\* C14 witness: two calls asked for the same slug, both passed the lookup,
\* one stored its tenant and the other failed at the insert.
C14_Witness ==
    /\ creates[1].pc = "done"
    /\ creates[2].pc = "done"
    /\ creates[1].slug = creates[2].slug
    /\ creates[1].result.outcome = "returned"
    /\ creates[2].result = Threw(UniqueConstraintFailed)
    /\ Cardinality({t \in DOMAIN tenants : tenants[t].slug = creates[1].slug}) = 1

\* C15: usage events are append-only. Every step of the tenant service
\* (trackResourceUsage, createTenant, updateTenant, deleteTenant) leaves
\* every recorded event in place with its tenant, resource type, amount and
\* period: the table only grows at its end.
C15_UsageAppendOnly ==
    [][/\ Len(resourceUsage') >= Len(resourceUsage)
       /\ \A k \in 1..Len(resourceUsage) :
             resourceUsage'[k] = resourceUsage[k]]_vars

(***************************************************************************)
(* Properties of generation and staging (checked under SpecGeneration).    *)
(***************************************************************************)
\* The status of the project of the staging operation under way.
StagingProjectStatus ==
    (CHOOSE q \in projects : q.id = staging.projectId).status

\* The generation call of the staging operation settles in this step.
GenerationSettles == staging.pc = "processing" /\ staging'.pc # "processing"

C17_FailureSurfacedNotRetried ==
    generation.method # "none" =>
        /\ generation.requests <= Len(generation.upstream)
        /\ (\E k \in 1..Len(generation.upstream) : generation.upstream[k] # "ok")
              => generation.result.outcome = "threw"

(***************************************************************************)
(* Failures of the store during context resolution (checked under          *)
(* SpecGate).                                                              *)
(***************************************************************************)
\* C18: a request whose user lookup threw while its context was resolved is
\* answered as a persistence failure: not with 401 Unauthorized and not
\* with a redirect to /login, and its handler is not run.
C18_LookupFailurePropagates ==
    (req.pc = "done" /\ req.fault = "db")
        => /\ req.response \notin {"401 Unauthorized", "redirect /login"}
           /\ req.handlerRuns = 0

(***************************************************************************)
(* getTenantContext as a query (checked under SpecDirectory).              *)
(***************************************************************************)
\* A getTenantContext call is made in this step.
CallsGetTenantContext == resolved' # Null /\ resolved' # resolved

\* C19: getTenantContext is read-only and idempotent. A call creates,
\* updates or deletes no record, and a call made for the same session as
\* the call before it, on the same tenant, user and organization records,
\* returns the same context as that call.
C19_ReadOnlyIdempotent ==
    [][CallsGetTenantContext =>
          /\ UNCHANGED <<storeVars, subscriptions>>
          /\ (/\ resolved # Null
              /\ resolved'[1].session = resolved[1].session
              /\ resolved'[1].tenants = resolved[1].tenants
              /\ resolved'[1].users = resolved[1].users
              /\ resolved'[1].organizations = resolved[1].organizations)
                => resolved'[1].context = resolved[1].context]_vars

(***************************************************************************)
(* Tenant settings (checked under SpecSettings).                           *)
(***************************************************************************)
\* The rows stored for a tenant and key.
SettingRows(rows, t, k) == {r \in rows : r.tenantId = t /\ r.settingKey = k}

\* C20: settings are upserted and unique per (tenant, key). There is at
\* most one row per tenant and key; a step that writes value v under key k
\* for tenant t makes getTenantSettings(t)[k] equal to v, leaves the rows of
\* every other tenant or key as they were, and making the same call again
\* changes nothing.
C20_SettingUpsert ==
    [][\A t \in TenantIds, k \in SettingKeyInputs :
          /\ Cardinality(SettingRows(tenantSettings', t, k)) <= 1
          /\ \A v \in SettingValues :
                ([tenantId |-> t, settingKey |-> k, settingValue |-> v]
                    \in tenantSettings' \ tenantSettings)
                   => /\ SettingOf(getTenantSettings(Db, t)', k) = JSString(v)
                      /\ updateTenantSetting(t, k, v)' = tenantSettings'
                      /\ \A t2 \in TenantIds, k2 \in SettingKeyInputs :
                            (t2 # t \/ k2 # k)
                               => SettingRows(tenantSettings', t2, k2)
                                     = SettingRows(tenantSettings, t2, k2)]_vars

(***************************************************************************)
(* Deleting tenants (checked under SpecTenants).                           *)
(***************************************************************************)
\* The tenant owns a user whose status is active.
OwnsActiveUser(t) ==
    \E u \in DOMAIN users : users[u].tenantId = t /\ users[u].status = "active"

C22_TiersAreSupersets ==
    (featureAccess = Returned(TRUE) /\ planType \in {"free", "pro"})
        => hasFeatureAccess(IF planType = "free" THEN "pro" ELSE "enterprise",
                            feature) = Returned(TRUE)

(***************************************************************************)
(* Quota under sequential requests (checked under Spec, where one request  *)
(* is completed before the next one starts).                               *)
(***************************************************************************)
\* The request under way records its usage event in this step.
RequestRecords ==
    /\ req.pc = "handler"
    /\ req'.pc = "done"
    /\ Records(req.context[1].tenant.id, "staging", 1)

\* C23: when the requests of a tenant run strictly one after another, the
\* usage they record in a period never exceeds the plan limit: a request
\* that records its event while the tenant's usage of the current month is
\* within the limit leaves it within the limit.
C23_SequentialWithinLimit ==
    [][(/\ RequestRecords
        /\ CurrentUsage(req.context[1].tenant.id, "staging")
              <= getTenantQuota(req.context[1].tenant.id, "staging"))
       => CurrentUsage(req.context[1].tenant.id, "staging")'
             <= getTenantQuota(req.context[1].tenant.id, "staging")]_vars

(***************************************************************************)
(* createTenant as a unit (checked under SpecTenants).                     *)
(***************************************************************************)
\* The rows call i has in the store.
StoredTenant(i) == NewTenantId(i) \in DOMAIN tenants
StoredUser(i) == NewUserId(i) \in DOMAIN users
StoredSubscriptions(i) ==
    {b \in subscriptions :
        b.tenantId = NewTenantId(i) /\ b.userId = NewUserId(i)}

\* C24: createTenant is all-or-nothing. When a call ends with an error the
\* store holds no tenant, user or subscription of it; when it returns, the
\* store holds its tenant, its user with role owner in that tenant, and
\* exactly one subscription for that user and tenant.
C24_AllOrNothing ==
    [][\A i \in CallIds :
          (creates[i].pc # "done" /\ creates'[i].pc = "done") =>
             IF creates'[i].result.outcome = "threw"
             THEN /\ ~StoredTenant(i)'
                  /\ ~StoredUser(i)'
                  /\ StoredSubscriptions(i)' = {}
             ELSE /\ StoredTenant(i)'
                  /\ StoredUser(i)'
                  /\ users'[NewUserId(i)].role = "owner"
                  /\ users'[NewUserId(i)].tenantId = NewTenantId(i)
                  /\ Cardinality(StoredSubscriptions(i)') = 1]_vars

C26_HandlerFailureIs500 ==
    [][req'.kind = "withTenant" =>
         /\ req'.handlerRuns <= 1
         /\ req'.handlerRuns = 1 => req'.context # Null
         /\ (req'.pc = "done" /\ req'.context = Null) =>
               (req'.handlerRuns = 0 /\ req'.response = "401 Unauthorized")
         /\ (req.pc = "handler" /\ req'.pc = "done" /\ req'.response # "200") =>
               req'.response = "500 Internal server error"]_vars

(***************************************************************************)
(* The generation client singletons and the key test route (checked       *)
(* under SpecClient).                                                      *)
(***************************************************************************)
ClientClass(m) == IF m = "fal-ai" THEN "FalAIService" ELSE "MockFalAIService"

\* C27: in either module and under every environment setting, a
\* getFalAIService call that follows another with no initializeFalAI in
\* between returns what that one returned, and after initializeFalAI(k)
\* every getFalAIService returns a client of the module constructed with
\* key k: not a mock client from the fal-ai module, and not a client with
\* another key.
C27_SingletonFollowsInitialize ==
    [][\A m \in Modules :
          (calls'[m] # calls[m] /\ calls'[m].last # Null) =>
              /\ calls[m].last # Null => calls'[m].last = calls[m].last
              /\ calls'[m].initKey # Null =>
                    /\ calls'[m].last[1].outcome = "returned"
                    /\ calls'[m].last[1].value.class = ClientClass(m)
                    /\ calls'[m].last[1].value.apiKey = calls'[m].initKey[1]]_vars

\* C28: the key test route answers 400 'API key is required' with no
\* validation call when apiKey is missing or empty; for a non-empty apiKey
\* it answers success with status 200 exactly when validateApiKey of a
\* client with that key yields true, and failure with status 400 otherwise.
C28_KeyTestAnswers ==
    (keyTest.pc = "done" /\ keyTest.body.json) =>
        IF ~JSTruthy(keyTest.body.apiKey)
        THEN /\ keyTest.status = 400
             /\ ~keyTest.success
             /\ keyTest.message = KeyRequired
             /\ keyTest.validations = 0
        ELSE /\ keyTest.success <=> validateApiKey(keyTest.upstream)
             /\ keyTest.success => keyTest.status = 200
             /\ ~keyTest.success => keyTest.status = 400

\* What getFalAIService of the fal-ai module has for its caller now: the
\* client it returns (the one its Promise resolves to; identity 0 for a
\* client it would construct on this call) or the error it throws.
SharedClient ==
    LET r == getFalAIService(env, falAIService, mockFalAIService, -1).result
    IN  IF r.outcome = "returned" /\ r.value.class = "Promise"
        THEN Returned(r.value.resolved[1])
        ELSE r

\* C29: no step of a key test request changes the client getFalAIService
\* returns, whatever apiKey was posted and however the validation ended.
C29_KeyTestLeavesClient ==
    [][keyTest' # keyTest => SharedClient' = SharedClient]_vars

(***************************************************************************)
(* Usage within a period (checked under SpecUsage).                        *)
(***************************************************************************)
\* C30: while the month stays the same, recording usage never lowers the
\* monthly usage getTenantStats reports for any tenant and resource type,
\* and that usage is never below zero.
C30_UsageNeverDecreases ==
    [][now' = now =>
          \A t \in TenantIds, rt \in MeteredTypes :
              /\ StatsUsage(t, rt)' >= StatsUsage(t, rt)
              /\ StatsUsage(t, rt)' >= 0]_vars

====
